---- MODULE Spec2Model ----
(***************************************************************************)
(* Model of the libxc package recipe                                       *)
(* (var/spack/repos/builtin/packages/libxc/package.py).                    *)
(*                                                                         *)
(* One build instance of the recipe is followed from the evaluation of the *)
(* declared conflict rules, through the build steps, to the library        *)
(* queries dependents make on the installed prefix.                        *)
(*                                                                         *)
(* Strings the recipe assembles are modelled as sequences of chunks, so    *)
(* that concatenation and str.format are sequence concatenation; the empty *)
(* sequence is the unset (or empty) environment variable.                  *)
(***************************************************************************)
EXTENDS Integers, Sequences, FiniteSets, TLC

VARIABLES spec, xiar, cuda_prefix, env0, env, pc, error, log, patches,
          configured, prefix, libs_result, nqueries

vars == <<spec, xiar, cuda_prefix, env0, env, pc, error, log, patches,
          configured, prefix, libs_result, nqueries>>

\* ------------------------------------------------------------------ bounds
\* Number of library queries dependents make on one installed prefix.
MaxQueries == 2

\* ------------------------------------------------------------ declarations
Range(s) == {s[i] : i \in 1..Len(s)}

\* version(...) directives
DeclaredVersions ==
    {<<5, 0, 0>>, <<4, 3, 4>>, <<4, 3, 2>>, <<4, 2, 3>>,
     <<3, 0, 0>>, <<2, 2, 2>>, <<2, 2, 1>>}

\* the version named 'develop' (not a declared release)
Develop == <<999, 0, 0>>

\* variant('shared', default=True, ...)
SharedDefault == TRUE

\* values[0..] of the cuda_arch variant: 'none' alone, or a tuple of targets
CudaArchValues == {<<"none">>, <<"70">>, <<"60", "70">>}

CompilerNames == {"gcc", "intel", "nvhpc"}

CudaPrefixes == {"/opt/cuda-10", "/opt/cuda-11"}

\* spack_cc: the compiler wrapper the build environment exports
spack_cc == <<"/spack/env/cc">>

\* Version.__lt__ on three-component versions
VersionLT(a, b) ==
    \/ a[1] < b[1]
    \/ a[1] = b[1] /\ a[2] < b[2]
    \/ a[1] = b[1] /\ a[2] = b[2] /\ a[3] < b[3]

\* '+name' in spec
Contains(s, v) ==
    CASE v = "+shared" -> s.shared
      [] v = "+cuda"   -> s.cuda
      [] OTHER         -> FALSE

\* version part of a constraint: '' (any), ':4', '5.0.0', 'develop'
InVersionRange(v, r) ==
    CASE r = ""        -> TRUE
      [] r = ":4"      -> v[1] <= 4
      [] r = "5.0.0"   -> v = <<5, 0, 0>>
      [] r = "develop" -> v = Develop
      [] OTHER         -> FALSE

\* spec.satisfies(constraint)
Satisfies(s, c) ==
    /\ \A v \in c.variants : Contains(s, v)
    /\ InVersionRange(s.version, c.versions)
    /\ (c.compiler = "" \/ c.compiler = s.compiler)

AnySpec == [variants |-> {}, versions |-> "", compiler |-> ""]

ConflictRulesNoSharedRule ==
    << [conflict |-> [AnySpec EXCEPT !.variants = {"+cuda"}],
        when     |-> [AnySpec EXCEPT !.versions = ":4"],
        msg      |-> "CUDA support only in libxc 5.0.0 and above"] >>

ConflictRulesNoVersionRule ==
    << [conflict |-> [AnySpec EXCEPT !.variants = {"+shared", "+cuda"}],
        when     |-> AnySpec,
        msg      |-> "Only ~shared supported with +cuda"] >>

\* conflicts(...) directives, in declaration order
ConflictRules ==
    << [conflict |-> [AnySpec EXCEPT !.variants = {"+shared", "+cuda"}],
        when     |-> AnySpec,
        msg      |-> "Only ~shared supported with +cuda"],
       [conflict |-> [AnySpec EXCEPT !.variants = {"+cuda"}],
        when     |-> [AnySpec EXCEPT !.versions = ":4"],
        msg      |-> "CUDA support only in libxc 5.0.0 and above"] >>

PatchRulesWithout0002 ==
    << [file |-> "0001-Bugfix-avoid-implicit-pointer-cast-to-make-libxc-com.patch",
        when |-> [AnySpec EXCEPT !.versions = "5.0.0"]],
       [file |-> "nvhpc-configure.patch",
        when |-> [AnySpec EXCEPT !.compiler = "nvhpc"]],
       [file |-> "nvhpc-libtool.patch",
        when |-> [AnySpec EXCEPT !.versions = "develop", !.compiler = "nvhpc"]] >>

\* patch(...) directives, in declaration order
PatchRules ==
    << [file |-> "0001-Bugfix-avoid-implicit-pointer-cast-to-make-libxc-com.patch",
        when |-> [AnySpec EXCEPT !.versions = "5.0.0"]],
       [file |-> "0002-Mark-xc_erfcx-a-GPU_FUNCTION.patch",
        when |-> [AnySpec EXCEPT !.versions = "5.0.0"]],
       [file |-> "nvhpc-configure.patch",
        when |-> [AnySpec EXCEPT !.compiler = "nvhpc"]],
       [file |-> "nvhpc-libtool.patch",
        when |-> [AnySpec EXCEPT !.versions = "develop", !.compiler = "nvhpc"]] >>

\* messages of the conflict rules the selection violates
ConflictMessages(s) ==
    {ConflictRules[i].msg : i \in
        {j \in 1..Len(ConflictRules) :
            /\ Satisfies(s, ConflictRules[j].conflict)
            /\ Satisfies(s, ConflictRules[j].when)}}

\* files of the patch rules that apply, in declaration order
RECURSIVE SelectedPatches(_, _)
SelectedPatches(s, i) ==
    IF i > Len(PatchRules) THEN <<>>
    ELSE (IF Satisfies(s, PatchRules[i].when)
             THEN <<PatchRules[i].file>> ELSE <<>>)
         \o SelectedPatches(s, i + 1)

\* ------------------------------------------------------- library locator
LibraryFiles == {"libxc", "libxcf90", "libxcf03"}

QueryParameterSets == SUBSET {"static", "fortran"}

\* what an installation can leave under the prefix: some of the libraries,
\* each in the kinds (shared, static) the external build produced
PrefixContents ==
    {{[name |-> n, shared |-> k] : n \in ns, k \in ks} :
        ns \in SUBSET LibraryFiles, ks \in (SUBSET BOOLEAN) \ {{}}}

\* find_libraries(libraries, root, shared, recursive=True): the files under
\* root that match a requested name in the requested kind, in request
\* order; reports failure when there is none
find_libraries(libraries, root, shared) ==
    LET matches == SelectSeq(libraries,
                     LAMBDA n : [name |-> n, shared |-> shared] \in root)
        files == [i \in 1..Len(matches) |->
                     [name |-> matches[i], shared |-> shared]]
    IN IF matches = <<>>
          THEN [status |-> "not found", files |-> <<>>]
          ELSE [status |-> "ok", files |-> files]

LibraryNamesSwapped(version, query_parameters) ==
    IF "fortran" \in query_parameters
       THEN IF VersionLT(version, <<4, 0, 0>>)
               THEN <<"libxcf90", "libxcf03">> \o <<"libxc">>
               ELSE <<"libxcf90">> \o <<"libxc">>
       ELSE <<"libxc">>

\* the names libs hands to the search
LibraryNames(version, query_parameters) ==
    IF "fortran" \in query_parameters
       THEN IF VersionLT(version, <<4, 0, 0>>)
               THEN <<"libxcf90">> \o <<"libxc">>
               ELSE <<"libxcf90", "libxcf03">> \o <<"libxc">>
       ELSE <<"libxc">>

SharedQueryIgnoringStatic(shared_variant, query_parameters) ==
    shared_variant

\* the kind libs asks for
SharedQuery(shared_variant, query_parameters) ==
    shared_variant /\ "static" \notin query_parameters

libsMasking(s, query_parameters, root) ==
    LET libraries == LibraryNames(s.version, query_parameters)
        shared    == SharedQuery(s.shared, query_parameters)
        found     == find_libraries(libraries, root, shared)
    IN [libraries |-> libraries, shared |-> shared,
        query     |-> query_parameters,
        result    |-> IF found.status = "ok" THEN found
                      ELSE [status |-> "ok", files |-> <<>>]]

\* Libxc.libs: the arguments of the search and what it gave back
libs(s, query_parameters, root) ==
    LET libraries == LibraryNames(s.version, query_parameters)
        shared    == SharedQuery(s.shared, query_parameters)
    IN [libraries |-> libraries, shared |-> shared,
        query     |-> query_parameters,
        result    |-> find_libraries(libraries, root, shared)]

\* --------------------------------------------------- environment preparer
EnvNames == {"CFLAGS", "FCFLAGS", "AR", "CC", "CCLD"}

\* environments the build can start from
InitialEnvs ==
    { [CFLAGS |-> <<>>, FCFLAGS |-> <<>>, AR |-> <<>>, CC |-> <<>>,
       CCLD |-> <<>>],
      [CFLAGS |-> <<"-g">>, FCFLAGS |-> <<>>, AR |-> <<"ar">>,
       CC |-> <<"cc">>, CCLD |-> <<"cc">>],
      [CFLAGS |-> <<"-g">>, FCFLAGS |-> <<"-g">>, AR |-> <<"xiar">>,
       CC |-> <<"cc">>, CCLD |-> <<>>] }

\* env.set(name, value)
env_set(e, name, value) == [e EXCEPT ![name] = value]

\* env.append_flags(name, value): joined to the old value with one blank
env_append_flags(e, name, value) ==
    [e EXCEPT ![name] = IF @ # <<>> THEN @ \o <<" ">> \o value ELSE value]

optflagsBaselineOnly(compiler_name) ==
    <<"-O2">>

\* optflags as setup_build_environment assembles it
optflags(compiler_name) ==
    IF compiler_name = "intel"
       THEN <<"-O2">> \o <<" -xSSE4.2 -axAVX,CORE-AVX2 -ipo">>
       ELSE <<"-O2">>

setup_build_environmentAlwaysArch(s, which_xiar, cudap, e) ==
    LET e1 == IF s.compiler = "intel" /\ which_xiar
                 THEN env_set(e, "AR", <<"xiar">>) ELSE e
        e2 == env_append_flags(e1, "CFLAGS", optflags(s.compiler))
        e3 == env_append_flags(e2, "FCFLAGS", optflags(s.compiler))
        nvcc == <<cudap, "/bin/nvcc">>
        e4 == env_set(e3, "CCLD", nvcc \o <<" -ccbin ">> \o spack_cc)
        e5 == env_set(e4, "CC", nvcc \o <<" -x cu -ccbin ">> \o spack_cc)
        cuda_arch == s.cuda_arch[1]
    IN IF Contains(s, "+cuda")
          THEN env_append_flags(e5, "CFLAGS", <<"-arch=sm_", cuda_arch>>)
          ELSE e3

\* Libxc.setup_build_environment
setup_build_environment(s, which_xiar, cudap, e) ==
    LET e1 == IF s.compiler = "intel" /\ which_xiar
                 THEN env_set(e, "AR", <<"xiar">>) ELSE e
        e2 == env_append_flags(e1, "CFLAGS", optflags(s.compiler))
        e3 == env_append_flags(e2, "FCFLAGS", optflags(s.compiler))
        nvcc == <<cudap, "/bin/nvcc">>
        e4 == env_set(e3, "CCLD", nvcc \o <<" -ccbin ">> \o spack_cc)
        e5 == env_set(e4, "CC", nvcc \o <<" -x cu -ccbin ">> \o spack_cc)
        cuda_arch == s.cuda_arch[1]
    IN IF Contains(s, "+cuda")
          THEN IF cuda_arch # "none"
                  THEN env_append_flags(e5, "CFLAGS",
                                        <<"-arch=sm_", cuda_arch>>)
                  ELSE e5
          ELSE e3

\* ---------------------------------------------- configure-argument builder
configure_argsSwapped(s) ==
    << IF Contains(s, "+cuda") THEN "--enable-cuda" ELSE "--disable-cuda",
       IF Contains(s, "+shared") THEN "--enable-shared"
                                 ELSE "--disable-shared" >>

\* Libxc.configure_args
configure_args(s) ==
    << IF Contains(s, "+shared") THEN "--enable-shared"
                                 ELSE "--disable-shared",
       IF Contains(s, "+cuda") THEN "--enable-cuda" ELSE "--disable-cuda" >>

\* ------------------------------------------------------------- test step
checkFailing(st) ==
    [st EXCEPT !.error = {"make check failed"}]

\* Libxc.check: pass
check(st) == st

\* ------------------------------------------------------------ the build
BuildSteps == <<"fetch", "patch", "configure", "compile", "install", "test">>

NoQuery ==
    [libraries |-> <<>>, shared |-> FALSE, query |-> {},
     result |-> [status |-> "none", files |-> <<>>]]

Init ==
    /\ spec \in [version  : DeclaredVersions,
                 shared   : BOOLEAN,
                 cuda     : BOOLEAN,
                 cuda_arch: CudaArchValues,
                 compiler : CompilerNames]
    /\ xiar \in BOOLEAN
    /\ cuda_prefix \in CudaPrefixes
    /\ env0 \in InitialEnvs
    /\ env = env0
    /\ pc = "concretize"
    /\ error = {}
    /\ log = <<>>
    /\ patches = <<>>
    /\ configured = <<>>
    /\ prefix = {}
    /\ libs_result = NoQuery
    /\ nqueries = 0

\* the conflict rules are evaluated before any build step
Validate ==
    /\ pc = "concretize"
    /\ IF ConflictMessages(spec) # {}
          THEN /\ pc' = "rejected"
               /\ error' = ConflictMessages(spec)
          ELSE /\ pc' = "fetch"
               /\ error' = error
    /\ UNCHANGED <<spec, xiar, cuda_prefix, env0, env, log, patches,
                   configured, prefix, libs_result, nqueries>>

\* the archive is retrieved and its checksum verified
Fetch ==
    /\ pc = "fetch"
    /\ \E verified \in BOOLEAN :
          IF verified
             THEN /\ pc' = "patch"
                  /\ log' = Append(log, "fetch")
                  /\ error' = error
             ELSE /\ pc' = "failed"
                  /\ log' = log
                  /\ error' = {"checksum mismatch"}
    /\ UNCHANGED <<spec, xiar, cuda_prefix, env0, env, patches,
                   configured, prefix, libs_result, nqueries>>

Patch ==
    /\ pc = "patch"
    /\ patches' = SelectedPatches(spec, 1)
    /\ log' = Append(log, "patch")
    /\ pc' = "setup"
    /\ UNCHANGED <<spec, xiar, cuda_prefix, env0, env, error,
                   configured, prefix, libs_result, nqueries>>

SetupBuildEnvironment ==
    /\ pc = "setup"
    /\ env' = setup_build_environment(spec, xiar, cuda_prefix, env)
    /\ pc' = "configure"
    /\ UNCHANGED <<spec, xiar, cuda_prefix, env0, error, log, patches,
                   configured, prefix, libs_result, nqueries>>

Configure ==
    /\ pc = "configure"
    /\ configured' = configure_args(spec)
    /\ log' = Append(log, "configure")
    /\ pc' = "compile"
    /\ UNCHANGED <<spec, xiar, cuda_prefix, env0, env, error, patches,
                   prefix, libs_result, nqueries>>

Compile ==
    /\ pc = "compile"
    /\ log' = Append(log, "compile")
    /\ pc' = "install"
    /\ UNCHANGED <<spec, xiar, cuda_prefix, env0, env, error, patches,
                   configured, prefix, libs_result, nqueries>>

Install ==
    /\ pc = "install"
    /\ prefix' \in PrefixContents
    /\ log' = Append(log, "install")
    /\ pc' = "test"
    /\ UNCHANGED <<spec, xiar, cuda_prefix, env0, env, error, patches,
                   configured, libs_result, nqueries>>

Test ==
    /\ pc = "test"
    /\ LET st == check([env |-> env, prefix |-> prefix, patches |-> patches,
                        configured |-> configured, error |-> error])
       IN /\ env' = st.env
          /\ prefix' = st.prefix
          /\ patches' = st.patches
          /\ configured' = st.configured
          /\ error' = st.error
          /\ pc' = IF st.error = {} THEN "done" ELSE "failed"
    /\ log' = Append(log, "test")
    /\ UNCHANGED <<spec, xiar, cuda_prefix, env0, libs_result, nqueries>>

\* a dependent asks the installed package for its libraries
QueryLibs ==
    /\ pc = "done"
    /\ nqueries < MaxQueries
    /\ \E query_parameters \in QueryParameterSets :
          libs_result' = libs(spec, query_parameters, prefix)
    /\ nqueries' = nqueries + 1
    /\ UNCHANGED <<spec, xiar, cuda_prefix, env0, env, pc, error, log,
                   patches, configured, prefix>>

Next ==
    \/ Validate
    \/ Fetch
    \/ Patch
    \/ SetupBuildEnvironment
    \/ Configure
    \/ Compile
    \/ Install
    \/ Test
    \/ QueryLibs

Spec == Init /\ [][Next]_vars

\* the build runs synchronously: a step that can run does run
FairSpec ==
    Spec /\ WF_vars(Validate \/ Fetch \/ Patch \/ SetupBuildEnvironment
                    \/ Configure \/ Compile \/ Install \/ Test)

\* ------------------------------------------------------------- properties
Queried == libs_result.result.status # "none"

EnvPrepared == pc \in {"configure", "compile", "install", "test", "done"}

IsPrefixOf(a, b) == Len(a) <= Len(b) /\ SubSeq(b, 1, Len(a)) = a

\* C1: a query with 'fortran' searches for ['libxcf90', 'libxc'] below
\* version 4.0.0 and for ['libxcf90', 'libxcf03', 'libxc'] from 4.0.0 on; a
\* query without 'fortran' searches for ['libxc'] alone.
C1_LibraryNames ==
    Queried =>
        libs_result.libraries =
            IF "fortran" \in libs_result.query
               THEN IF spec.version \in {<<3, 0, 0>>, <<2, 2, 2>>, <<2, 2, 1>>}
                       THEN <<"libxcf90", "libxc">>
                       ELSE <<"libxcf90", "libxcf03", "libxc">>
               ELSE <<"libxc">>

C1_Witness ==
    /\ Queried
    /\ "fortran" \in libs_result.query
    /\ spec.version = <<4, 2, 3>>
    /\ libs_result.libraries = <<"libxcf90", "libxcf03", "libxc">>

\* C2: libs searches for shared libraries exactly when the 'shared' variant
\* is true and 'static' is not requested, for static ones otherwise, and
\* every file it returns is of the kind searched for.
C2_SharedOrStatic ==
    Queried =>
        /\ libs_result.shared =
              (spec.shared /\ "static" \notin libs_result.query)
        /\ (spec.shared = SharedDefault /\ libs_result.query = {}
               => libs_result.shared)
        /\ ("static" \in libs_result.query => ~libs_result.shared)
        /\ \A i \in 1..Len(libs_result.result.files) :
              libs_result.result.files[i].shared = libs_result.shared

C2_Witness ==
    /\ Queried
    /\ spec.shared
    /\ "static" \in libs_result.query
    /\ libs_result.result.status = "ok"
    /\ ~libs_result.result.files[1].shared

\* C3: +cuda with +shared never gets past the conflict rules, for any
\* version: no build step runs, nothing is configured, and the rejection
\* carries 'Only ~shared supported with +cuda'.
C3_SharedCudaRejected ==
    spec.cuda /\ spec.shared =>
        /\ pc \in {"concretize", "rejected"}
        /\ log = <<>>
        /\ configured = <<>>
        /\ prefix = {}
        /\ (pc = "rejected" =>
               "Only ~shared supported with +cuda" \in error)

C3_Witness ==
    /\ spec.cuda /\ spec.shared
    /\ spec.version = <<5, 0, 0>>
    /\ pc = "rejected"
    /\ error = {"Only ~shared supported with +cuda"}

\* C4: +cuda on a declared version below 5.0.0 is refused with 'CUDA support
\* only in libxc 5.0.0 and above' whatever 'shared' is; on 5.0.0 this rule
\* refuses nothing.
C4_CudaBelowThresholdRejected ==
    /\ (spec.cuda /\ spec.version \in
            {<<4, 3, 4>>, <<4, 3, 2>>, <<4, 2, 3>>,
             <<3, 0, 0>>, <<2, 2, 2>>, <<2, 2, 1>>} =>
          /\ pc \in {"concretize", "rejected"}
          /\ (pc = "rejected" =>
                 "CUDA support only in libxc 5.0.0 and above" \in error))
    /\ (spec.version = <<5, 0, 0>> =>
          "CUDA support only in libxc 5.0.0 and above" \notin error)

C4_Witness ==
    /\ spec.cuda /\ ~spec.shared
    /\ spec.version = <<4, 3, 4>>
    /\ pc = "rejected"
    /\ error = {"CUDA support only in libxc 5.0.0 and above"}

\* C5: configure_args gives exactly two flags, the shared flag first and the
\* cuda flag second, each enabled or disabled as selected.
C5_ConfigureArgs ==
    LET expected(s) ==
            << IF s.shared THEN "--enable-shared" ELSE "--disable-shared",
               IF s.cuda THEN "--enable-cuda" ELSE "--disable-cuda" >>
    IN /\ configure_args(spec) = expected(spec)
       /\ (configured # <<>> => configured = expected(spec))

C5_Witness ==
    /\ pc = "compile"
    /\ spec.cuda
    /\ configured = <<"--disable-shared", "--enable-cuda">>

\* C6: with +cuda, CC and CCLD go through nvcc and '-arch=sm_<arch>' of the
\* first cuda_arch value follows the optimization flags in CFLAGS exactly
\* when that value is not 'none'; without +cuda, CC and CCLD keep their
\* values and CFLAGS gets no architecture flag.
C6_CudaEnvironment ==
    EnvPrepared =>
        LET opt == IF spec.compiler = "intel"
                      THEN <<"-O2", " -xSSE4.2 -axAVX,CORE-AVX2 -ipo">>
                      ELSE <<"-O2">>
            base == IF env0.CFLAGS = <<>> THEN opt
                    ELSE env0.CFLAGS \o <<" ">> \o opt
        IN IF spec.cuda
              THEN /\ env.CC = <<cuda_prefix, "/bin/nvcc", " -x cu -ccbin ",
                                 "/spack/env/cc">>
                   /\ env.CCLD = <<cuda_prefix, "/bin/nvcc", " -ccbin ",
                                   "/spack/env/cc">>
                   /\ env.CFLAGS =
                         IF spec.cuda_arch[1] # "none"
                            THEN base \o <<" ", "-arch=sm_",
                                            spec.cuda_arch[1]>>
                            ELSE base
              ELSE /\ env.CC = env0.CC
                   /\ env.CCLD = env0.CCLD
                   /\ env.CFLAGS = base

C6_Witness ==
    /\ EnvPrepared
    /\ spec.cuda
    /\ spec.cuda_arch = <<"60", "70">>
    /\ env.CFLAGS = <<"-g", " ", "-O2", " ", "-arch=sm_", "60">>
    /\ env.CC # env0.CC

\* C7: CFLAGS and FCFLAGS both get the same optimization string appended,
\* '-O2' or, for intel, '-O2 -xSSE4.2 -axAVX,CORE-AVX2 -ipo'; AR becomes
\* 'xiar' exactly when the compiler is intel and xiar is available.
C7_OptimizationFlags ==
    EnvPrepared =>
        LET opt == IF spec.compiler = "intel"
                      THEN <<"-O2", " -xSSE4.2 -axAVX,CORE-AVX2 -ipo">>
                      ELSE <<"-O2">>
            appended(old) == IF old = <<>> THEN opt
                             ELSE old \o <<" ">> \o opt
        IN /\ env.FCFLAGS = appended(env0.FCFLAGS)
           /\ IsPrefixOf(appended(env0.CFLAGS), env.CFLAGS)
           /\ env.AR = IF spec.compiler = "intel" /\ xiar
                          THEN <<"xiar">> ELSE env0.AR

C7_Witness ==
    /\ EnvPrepared
    /\ spec.compiler = "intel"
    /\ xiar
    /\ env0.AR = <<"ar">>
    /\ env.AR = <<"xiar">>
    /\ env.FCFLAGS = <<"-O2", " -xSSE4.2 -axAVX,CORE-AVX2 -ipo">>

\* C8: when no file under the prefix matches a requested name in the
\* requested kind, libs reports 'not found'; a successful result is never
\* empty.
C8_NotFoundPropagated ==
    Queried =>
        /\ ((~\E n \in Range(libs_result.libraries) :
                [name |-> n, shared |-> libs_result.shared] \in prefix)
              => libs_result.result.status = "not found")
        /\ (libs_result.result.status = "ok"
              => libs_result.result.files # <<>>)

C8_Witness ==
    /\ Queried
    /\ prefix # {}
    /\ libs_result.result.status = "not found"

\* C9: the steps run in the order fetch, patch, configure, compile,
\* install, test, one after the other; the test step changes nothing and
\* reports no error, so a build that completed install completes.
C9_SequentialBuild ==
    /\ [](IsPrefixOf(log, BuildSteps))
    /\ [][pc = "test" =>
            /\ pc' = "done"
            /\ UNCHANGED <<spec, env, prefix, patches, configured, error>>]_vars
    /\ []("install" \in Range(log) => pc # "failed" /\ error = {})
    /\ (("install" \in Range(log)) ~> (pc = "done" /\ log = BuildSteps))

C9_Witness ==
    /\ pc = "done"
    /\ log = BuildSteps
    /\ error = {}

\* C10: a selection that passes both conflict rules has +cuda only on 5.0.0
\* with ~shared; a configured +cuda build got exactly
\* ['--disable-shared', '--enable-cuda'] after both 5.0.0 patches, and
\* ['--enable-shared', '--enable-cuda'] is never passed to configure.
C10_CudaConfigurations ==
    /\ (spec.cuda /\ pc \notin {"concretize", "rejected"} =>
          spec.version = <<5, 0, 0>> /\ ~spec.shared)
    /\ (configured # <<>> /\ "--enable-cuda" \in Range(configured) =>
          /\ configured = <<"--disable-shared", "--enable-cuda">>
          /\ Len(patches) >= 2
          /\ patches[1] =
                "0001-Bugfix-avoid-implicit-pointer-cast-to-make-libxc-com.patch"
          /\ patches[2] = "0002-Mark-xc_erfcx-a-GPU_FUNCTION.patch")
    /\ configured # <<"--enable-shared", "--enable-cuda">>

C10_Witness ==
    /\ spec.cuda
    /\ pc = "done"
    /\ configured = <<"--disable-shared", "--enable-cuda">>
    /\ Len(patches) = 3

====
